---- MODULE Spec2Model ----
(***************************************************************************)
(* State-machine model of the ACLED Trendfinder API handler                *)
(* (src/handler.py): one Lambda process serving sequential invocations.    *)
(*                                                                         *)
(* Text values (query values, header values, SQL parameters) are sequences *)
(* of one-character strings, so that trimming, length checks, parsing and  *)
(* formatting are computed character by character.  Dictionary keys and    *)
(* fixed literals of the program are TLA+ strings.                         *)
(***************************************************************************)
EXTENDS Integers, Sequences, FiniteSets, TLC

\* ------------------------------------------------------------------------
\* Bounds of the model
\* ------------------------------------------------------------------------
\* An event differs from the base event in at most MaxEdits places.
MaxEdits == 2
\* A stubbed cursor reports a total in 0..MaxTotal.
MaxTotal == 3
\* A stubbed cursor returns 0..MaxRows rows.
MaxRows == 3
\* pymysql.connect succeeds at most MaxConnects times in one process.
MaxConnects == 2

\* ------------------------------------------------------------------------
\* Configuration (environment variables read at import, handler.py:62-92).
\* The model runs the deployment MAX_PAGE_SIZE=3, DEFAULT_PAGE_SIZE=2,
\* DEBUG_MAX_ROWS=2: the same code with small limits.
\* ------------------------------------------------------------------------
DEFAULT_PAGE_SIZE == 2
MAX_PAGE_SIZE == 3
DEBUG_MAX_ROWS == 2
\* max_length of q (handler.py:136) and the preview cut (handler.py:359)
Q_MAX_LENGTH == 200
PREVIEW_LENGTH == 64

\* Python's None where a text value is expected (no text equals it).
None == <<"<None>">>

\* ------------------------------------------------------------------------
\* Text helpers (Python str semantics)
\* ------------------------------------------------------------------------
IsSpace(c) == c = " "

RECURSIVE LStrip(_)
LStrip(s) == IF s # <<>> /\ IsSpace(Head(s)) THEN LStrip(Tail(s)) ELSE s

RECURSIVE RStrip(_)
RStrip(s) ==
    IF s # <<>> /\ IsSpace(s[Len(s)]) THEN RStrip(SubSeq(s, 1, Len(s) - 1)) ELSE s

\* str.strip(): whitespace removed at both ends
Strip(s) == RStrip(LStrip(s))

\* str.lower() on the letters the model uses
LowerChar(c) ==
    CASE c = "T" -> "t"
      [] c = "K" -> "k"
      [] c = "E" -> "e"
      [] c = "D" -> "d"
      [] c = "S" -> "s"
      [] c = "C" -> "c"
      [] OTHER -> c

Lower(s) == [i \in 1..Len(s) |-> LowerChar(s[i])]

\* s[:n]
Prefix(s, n) == SubSeq(s, 1, IF Len(s) < n THEN Len(s) ELSE n)

\* sub in s
Contains(s, sub) ==
    \E i \in 0..(Len(s) - Len(sub)) : SubSeq(s, i + 1, i + Len(sub)) = sub

Digits == <<"0", "1", "2", "3", "4", "5", "6", "7", "8", "9">>

IsDigit(c) == \E i \in 1..10 : Digits[i] = c

DigitVal(c) == (CHOOSE i \in 1..10 : Digits[i] = c) - 1

AllDigits(s) == s # <<>> /\ \A i \in 1..Len(s) : IsDigit(s[i])

RECURSIVE DigitsVal(_)
DigitsVal(s) ==
    IF s = <<>> THEN 0
    ELSE 10 * DigitsVal(SubSeq(s, 1, Len(s) - 1)) + DigitVal(s[Len(s)])

\* int(str): optional sign, then decimal digits, surrounding whitespace ignored
ParseInt(raw) ==
    LET s == Strip(raw)
        neg == s # <<>> /\ Head(s) = "-"
        body == IF s # <<>> /\ Head(s) \in {"-", "+"} THEN Tail(s) ELSE s
    IN  IF AllDigits(body)
        THEN [ok |-> TRUE, val |-> IF neg THEN 0 - DigitsVal(body) ELSE DigitsVal(body)]
        ELSE [ok |-> FALSE, val |-> 0]

\* ------------------------------------------------------------------------
\* Calendar dates (datetime.date): [y, m, d]
\* ------------------------------------------------------------------------
IsLeap(y) == (y % 4 = 0 /\ y % 100 # 0) \/ y % 400 = 0

DaysInMonth(y, m) ==
    IF m = 2 THEN (IF IsLeap(y) THEN 29 ELSE 28)
    ELSE IF m \in {4, 6, 9, 11} THEN 30 ELSE 31

NoDate == [y |-> 0, m |-> 0, d |-> 0]

\* A date from its ISO 8601 text YYYY-MM-DD
ParseDate(s) ==
    IF /\ Len(s) = 10
       /\ s[5] = "-" /\ s[8] = "-"
       /\ AllDigits(SubSeq(s, 1, 4))
       /\ AllDigits(SubSeq(s, 6, 7))
       /\ AllDigits(SubSeq(s, 9, 10))
    THEN LET y == DigitsVal(SubSeq(s, 1, 4))
             m == DigitsVal(SubSeq(s, 6, 7))
             d == DigitsVal(SubSeq(s, 9, 10))
         IN  IF y >= 1 /\ m \in 1..12 /\ d >= 1 /\ d <= DaysInMonth(y, m)
             THEN [ok |-> TRUE, val |-> [y |-> y, m |-> m, d |-> d]]
             ELSE [ok |-> FALSE, val |-> NoDate]
    ELSE [ok |-> FALSE, val |-> NoDate]

\* n as exactly w decimal digits, zero padded
RECURSIVE Pad(_, _)
Pad(n, w) == IF w = 0 THEN <<>> ELSE Append(Pad(n \div 10, w - 1), Digits[(n % 10) + 1])

\* date.isoformat()
IsoFormat(dt) == Pad(dt.y, 4) \o <<"-">> \o Pad(dt.m, 2) \o <<"-">> \o Pad(dt.d, 2)

DateLT(a, b) ==
    \/ a.y < b.y
    \/ a.y = b.y /\ a.m < b.m
    \/ a.y = b.y /\ a.m = b.m /\ a.d < b.d

DateLE(a, b) == a = b \/ DateLT(a, b)

\* str.split(","): the pieces between commas
RECURSIVE Split(_, _)
Split(s, cur) ==
    IF s = <<>> THEN <<cur>>
    ELSE IF Head(s) = "," THEN <<cur>> \o Split(Tail(s), <<>>)
    ELSE Split(Tail(s), Append(cur, Head(s)))

\* ------------------------------------------------------------------------
\* Texts the model uses
\* ------------------------------------------------------------------------
KE == <<"K", "E">>
ML == <<"M", "L">>
Jan == <<"2", "0", "2", "5", "-", "0", "1", "-">>
D1 == Jan \o <<"0", "1">>
D2 == Jan \o <<"0", "2">>
D3 == Jan \o <<"0", "3">>
Feb30 == <<"2", "0", "2", "5", "-", "0", "2", "-", "3", "0">>
BadDate == <<"b", "a", "d">>
T1 == <<"T", "1">>
EVENT_DATE == <<"e", "v", "e", "n", "t", "_", "d", "a", "t", "e">>
FATALITIES == <<"f", "a", "t", "a", "l", "i", "t", "i", "e", "s">>
COUNTRY == <<"c", "o", "u", "n", "t", "r", "y">>
ASC == <<"a", "s", "c">>
DESC == <<"d", "e", "s", "c">>

\* ------------------------------------------------------------------------
\* Dictionaries: functions from keys to values.  Get is dict.get(k) with a
\* default; Truthy is Python truthiness of a text (or None).
\* ------------------------------------------------------------------------
EmptyDict == [k \in {} |-> <<>>]

Has(d, k) == k \in DOMAIN d

Get(d, k, dflt) == IF k \in DOMAIN d THEN d[k] ELSE dflt

Truthy(v) == v # None /\ v # <<>>

\* ------------------------------------------------------------------------
\* HTTP helpers
\* ------------------------------------------------------------------------
\* An event: shape "raw" carries rawQueryString (the pairs key=value of the
\* query string, in order, percent-decoded); shape "map" carries
\* queryStringParameters.  headers are the pairs name, value in dict order.
is_http_api_v2(ev) == ev.shape = "raw"

\* urllib.parse.parse_qs with its defaults: pairs with a blank value are
\* skipped (keep_blank_values=False); the values of a key are listed in
\* order of occurrence.
parse_qs(pairs) ==
    LET kept == SelectSeq(pairs, LAMBDA p : p[2] # <<>>)
        keys == {kept[i][1] : i \in 1..Len(kept)}
        vals(k) == LET mine == SelectSeq(kept, LAMBDA p : p[1] = k)
                   IN  [i \in 1..Len(mine) |-> mine[i][2]]
    IN  [k \in keys |-> vals(k)]

parse_params(ev) ==
    IF is_http_api_v2(ev)
    THEN parse_qs(ev.rawQueryString)
    ELSE [k \in DOMAIN ev.queryStringParameters |-> <<ev.queryStringParameters[k]>>]

\* v[-1] in place of v[0]
collapse_to_last(params) ==
    [k \in DOMAIN params |-> IF params[k] # <<>> THEN params[k][Len(params[k])] ELSE params[k]]

\* v[0] for every non-empty list v
collapse_to_simple(params) ==
    [k \in DOMAIN params |-> IF params[k] # <<>> THEN params[k][1] ELSE params[k]]

\* str.lower() of a header name
LowerName(n) ==
    CASE n = "X-Debug-Key" -> "x-debug-key"
      [] n = "X-Correlation-Id" -> "x-correlation-id"
      [] OTHER -> n

\* {k.lower(): v for k, v in headers.items()}: a later pair overwrites an
\* earlier one with the same lowered name
headers_lower(ev) ==
    LET hs == ev.headers
        names == {LowerName(hs[i][1]) : i \in 1..Len(hs)}
        last(n) == CHOOSE i \in 1..Len(hs) :
                      /\ LowerName(hs[i][1]) = n
                      /\ \A j \in (i + 1)..Len(hs) : LowerName(hs[j][1]) # n
    IN  [n \in names |-> hs[last(n)][2]]

\* a or b
Or(a, b) == IF Truthy(a) THEN a ELSE b

is_debug_ci(ev, params, allowed) ==
    LET supplied == Or(Get(headers_lower(ev), "x-debug-key", None),
                       Get(collapse_to_simple(params), "x-debug-key", None))
    IN  Truthy(supplied) /\ Lower(supplied) \in {Lower(k) : k \in allowed}

is_debug(ev, params, allowed) ==
    LET supplied == Or(Get(headers_lower(ev), "x-debug-key", None),
                       Get(collapse_to_simple(params), "x-debug-key", None))
    IN  Truthy(supplied) /\ supplied \in allowed

\* DEBUG_ALLOWED_KEYS from the text of the DEBUG_KEYS variable
AllowedKeys(env) ==
    LET parts == Split(env, <<>>)
    IN  {Strip(parts[i]) : i \in {j \in 1..Len(parts) : Strip(parts[j]) # <<>>}}

CorsHeaders ==
    [n \in {"Access-Control-Allow-Origin", "Access-Control-Allow-Methods",
            "Access-Control-Allow-Headers"} |->
        CASE n = "Access-Control-Allow-Origin" -> "*"
          [] n = "Access-Control-Allow-Methods" -> "GET,OPTIONS"
          [] OTHER -> "Content-Type,Authorization,X-Debug-Key,X-Correlation-Id"]

\* response(...) without the X-Correlation-Id header
response_nocorr(status_code, body_dict, cors, correlation_id) ==
    [statusCode |-> status_code,
     headers |-> ("Content-Type" :> "application/json")
                 @@ (IF cors THEN CorsHeaders ELSE EmptyDict),
     body |-> body_dict]

\* response(status_code, body_dict, cors=True, correlation_id=None); body is
\* the dictionary that json.dumps writes
response(status_code, body_dict, cors, correlation_id) ==
    [statusCode |-> status_code,
     headers |-> ("Content-Type" :> "application/json")
                 @@ (IF cors THEN CorsHeaders ELSE EmptyDict)
                 @@ (IF Truthy(correlation_id)
                     THEN ("X-Correlation-Id" :> correlation_id) ELSE EmptyDict),
     body |-> body_dict]

\* ------------------------------------------------------------------------
\* Validation: class TrendfinderQuery (pydantic BaseModel)
\* ------------------------------------------------------------------------
Err(field, type) == [loc |-> field, type |-> type]

\* constr(strip_whitespace=True, **limits) on a text; limits holds
\* min_length and, when the field has one, max_length
ConstrCheck(field, raw, limits) ==
    LET s == Strip(raw)
    IN  IF Len(s) < limits.min_length
        THEN [errs |-> <<Err(field, "string_too_short")>>, val |-> None]
        ELSE IF "max_length" \in DOMAIN limits /\ Len(s) > limits.max_length
        THEN [errs |-> <<Err(field, "string_too_long")>>, val |-> None]
        ELSE [errs |-> <<>>, val |-> s]

\* a required constr field
RequiredStr(simple, field, limits) ==
    IF ~Has(simple, field) THEN [errs |-> <<Err(field, "missing")>>, val |-> None]
    ELSE ConstrCheck(field, simple[field], limits)

\* Optional[constr(...)] = None
OptionalStr(simple, field, limits) ==
    IF ~Has(simple, field) THEN [errs |-> <<>>, val |-> None]
    ELSE ConstrCheck(field, simple[field], limits)

\* a required date field
RequiredDate(simple, field) ==
    IF ~Has(simple, field) THEN [errs |-> <<Err(field, "missing")>>, val |-> NoDate]
    ELSE LET r == ParseDate(simple[field])
         IN  IF r.ok THEN [errs |-> <<>>, val |-> r.val]
             ELSE [errs |-> <<Err(field, "date_parsing")>>, val |-> NoDate]

\* a conint that moves an out-of-range value to the nearest bound
ConIntClamp(simple, field, limits, dflt) ==
    IF ~Has(simple, field) THEN [errs |-> <<>>, val |-> dflt]
    ELSE LET r == ParseInt(simple[field])
         IN  IF ~r.ok THEN [errs |-> <<Err(field, "int_parsing")>>, val |-> dflt]
             ELSE IF r.val < limits.ge THEN [errs |-> <<>>, val |-> limits.ge]
             ELSE IF "le" \in DOMAIN limits /\ r.val > limits.le
             THEN [errs |-> <<>>, val |-> limits.le]
             ELSE [errs |-> <<>>, val |-> r.val]

\* conint(**limits) = dflt; limits holds ge and, when the field has one, le.
\* The default itself is not validated.
ConInt(simple, field, limits, dflt) ==
    IF ~Has(simple, field) THEN [errs |-> <<>>, val |-> dflt]
    ELSE LET r == ParseInt(simple[field])
         IN  IF ~r.ok THEN [errs |-> <<Err(field, "int_parsing")>>, val |-> dflt]
             ELSE IF r.val < limits.ge
             THEN [errs |-> <<Err(field, "greater_than_equal")>>, val |-> dflt]
             ELSE IF "le" \in DOMAIN limits /\ r.val > limits.le
             THEN [errs |-> <<Err(field, "less_than_equal")>>, val |-> dflt]
             ELSE [errs |-> <<>>, val |-> r.val]

\* Literal[...] = dflt: exact, case-sensitive membership
LiteralField(simple, field, allowed, dflt) ==
    IF ~Has(simple, field) THEN [errs |-> <<>>, val |-> dflt]
    ELSE IF simple[field] \in allowed THEN [errs |-> <<>>, val |-> simple[field]]
    ELSE [errs |-> <<Err(field, "literal_error")>>, val |-> dflt]

\* a ValidationError that stops at the first failing field
CollectErrorsFirstOnly(lists) ==
    LET bad == {i \in 1..Len(lists) : lists[i] # <<>>}
    IN  IF bad = {} THEN <<>> ELSE lists[CHOOSE i \in bad : \A j \in bad : i <= j]

\* the errors of all fields, in field order
RECURSIVE CollectErrors(_)
CollectErrors(lists) ==
    IF lists = <<>> THEN <<>> ELSE Head(lists) \o CollectErrors(Tail(lists))

\* TrendfinderQuery(**simple): every field is validated on its own; keys that
\* name no field are ignored.  errs = <<>> means the instance q was built.
TrendfinderQuery(simple) ==
    LET country == RequiredStr(simple, "country", [min_length |-> 2])
        start_date == RequiredDate(simple, "start_date")
        end_date == RequiredDate(simple, "end_date")
        page == ConInt(simple, "page", [ge |-> 1], 1)
        page_size == ConInt(simple, "page_size", [ge |-> 1, le |-> MAX_PAGE_SIZE],
                            DEFAULT_PAGE_SIZE)
        sort_by == LiteralField(simple, "sort_by", {EVENT_DATE, FATALITIES, COUNTRY},
                                EVENT_DATE)
        sort_dir == LiteralField(simple, "sort_dir", {ASC, DESC}, DESC)
        q == OptionalStr(simple, "q", [min_length |-> 1, max_length |-> Q_MAX_LENGTH])
        event_type == OptionalStr(simple, "event_type", [min_length |-> 1])
        sub_event_type == OptionalStr(simple, "sub_event_type", [min_length |-> 1])
        actor1 == OptionalStr(simple, "actor1", [min_length |-> 1])
        actor2 == OptionalStr(simple, "actor2", [min_length |-> 1])
    IN  [errs |-> CollectErrors(<<country.errs, start_date.errs, end_date.errs,
                                  page.errs, page_size.errs, sort_by.errs,
                                  sort_dir.errs, q.errs, event_type.errs,
                                  sub_event_type.errs, actor1.errs, actor2.errs>>),
         q |-> [country |-> country.val, start_date |-> start_date.val,
                end_date |-> end_date.val, page |-> page.val,
                page_size |-> page_size.val, sort_by |-> sort_by.val,
                sort_dir |-> sort_dir.val, q |-> q.val,
                event_type |-> event_type.val,
                sub_event_type |-> sub_event_type.val,
                actor1 |-> actor1.val, actor2 |-> actor2.val]]

\* ------------------------------------------------------------------------
\* SQL helpers.  A WHERE clause is the sequence of its terms (joined by
\* " AND " in the program); each %s is a placeholder for one bound value.
\* ------------------------------------------------------------------------
FILTERABLE_FIELDS == <<"country", "event_type", "sub_event_type", "actor1", "actor2">>

\* if val: where.append(f"{column} = %s"); sql_params.append(val)
RECURSIVE EqualityFilters(_, _)
EqualityFilters(q, fields) ==
    IF fields = <<>> THEN [where |-> <<>>, params |-> <<>>]
    ELSE LET rest == EqualityFilters(q, Tail(fields))
             val == q[Head(fields)]
         IN  IF Truthy(val)
             THEN [where |-> <<Head(fields) \o " = %s">> \o rest.where,
                   params |-> <<val>> \o rest.params]
             ELSE rest

\* build_filters_from_validated with an inclusive upper bound on the date
build_filters_inclusive_end(q) ==
    LET eq == EqualityFilters(q, FILTERABLE_FIELDS)
        like == <<"%">> \o q.q \o <<"%">>
    IN  [where |-> (IF q.start_date # NoDate THEN <<"event_date >= %s">> ELSE <<>>)
                   \o (IF q.end_date # NoDate THEN <<"event_date <= %s">> ELSE <<>>)
                   \o eq.where
                   \o (IF Truthy(q.q) THEN <<"(title LIKE %s OR notes LIKE %s)">> ELSE <<>>),
         params |-> (IF q.start_date # NoDate THEN <<IsoFormat(q.start_date)>> ELSE <<>>)
                    \o (IF q.end_date # NoDate THEN <<IsoFormat(q.end_date)>> ELSE <<>>)
                    \o eq.params
                    \o (IF Truthy(q.q) THEN <<like, like>> ELSE <<>>)]

\* build_filters_from_validated(q, sql_params): the clause and the values
\* appended to sql_params (a date instance is always true in "if q.start_date")
build_filters_from_validated(q) ==
    LET eq == EqualityFilters(q, FILTERABLE_FIELDS)
        like == <<"%">> \o q.q \o <<"%">>
    IN  [where |-> (IF q.start_date # NoDate THEN <<"event_date >= %s">> ELSE <<>>)
                   \o (IF q.end_date # NoDate THEN <<"event_date < %s">> ELSE <<>>)
                   \o eq.where
                   \o (IF Truthy(q.q) THEN <<"(title LIKE %s OR notes LIKE %s)">> ELSE <<>>),
         params |-> (IF q.start_date # NoDate THEN <<IsoFormat(q.start_date)>> ELSE <<>>)
                    \o (IF q.end_date # NoDate THEN <<IsoFormat(q.end_date)>> ELSE <<>>)
                    \o eq.params
                    \o (IF Truthy(q.q) THEN <<like, like>> ELSE <<>>)]

\* SORTABLE_FIELDS.get(q.sort_by, DATE_FIELD)
SortColumn(sort_by) ==
    CASE sort_by = FATALITIES -> "fatalities"
      [] sort_by = COUNTRY -> "country"
      [] OTHER -> "event_date"

build_sort_from_validated(q) ==
    [column |-> SortColumn(q.sort_by),
     direction |-> IF Lower(q.sort_dir) = DESC THEN "DESC" ELSE "ASC"]

\* the projected columns of the page statement
Columns ==
    {"event_id", "event_date", "country", "admin1", "event_type", "sub_event_type",
     "actor1", "actor2", "fatalities", "latitude", "longitude"}

\* [str(p)[:64] for p in sql_params]
ParamsPreview(sql_params) ==
    [i \in 1..Len(sql_params) |-> Prefix(sql_params[i], PREVIEW_LENGTH)]

\* ------------------------------------------------------------------------
\* The data store behind pymysql: the events table, and how it evaluates
\* the two statements
\* ------------------------------------------------------------------------
Day(d) == [y |-> 2025, m |-> 1, d |-> d]

Event(id, d, country, event_type, actor1, fatalities, title, notes) ==
    [event_id |-> id, event_date |-> Day(d), country |-> country, admin1 |-> <<"N">>,
     event_type |-> event_type, sub_event_type |-> <<"S">>, actor1 |-> actor1,
     actor2 |-> <<"B">>, fatalities |-> fatalities, latitude |-> "-1.29",
     longitude |-> "36.82", title |-> title, notes |-> notes]

Table ==
    {Event(<<"E", "1">>, 1, KE, <<"P">>, <<"A">>, 0, <<"a", "x">>, <<"y">>),
     Event(<<"E", "2">>, 2, KE, <<"P">>, <<"C">>, 2, <<"y">>, <<"x", "a">>),
     Event(<<"E", "3">>, 3, KE, <<"R">>, <<"A">>, 1, <<"a">>, <<"a">>),
     Event(<<"E", "4">>, 2, ML, <<"P">>, <<"A">>, 3, <<"x">>, <<"y">>),
     Event(<<"E", "5">>, 1, KE, <<"R">>, <<"C">>, 4, <<"x">>, <<"y">>)}

\* the meaning of one term of a WHERE clause
TermOf(term) ==
    CASE term = "event_date >= %s" -> [col |-> "event_date", op |-> ">=", n |-> 1]
      [] term = "event_date < %s" -> [col |-> "event_date", op |-> "<", n |-> 1]
      [] term = "event_date <= %s" -> [col |-> "event_date", op |-> "<=", n |-> 1]
      [] term = "country = %s" -> [col |-> "country", op |-> "=", n |-> 1]
      [] term = "event_type = %s" -> [col |-> "event_type", op |-> "=", n |-> 1]
      [] term = "sub_event_type = %s" -> [col |-> "sub_event_type", op |-> "=", n |-> 1]
      [] term = "actor1 = %s" -> [col |-> "actor1", op |-> "=", n |-> 1]
      [] term = "actor2 = %s" -> [col |-> "actor2", op |-> "=", n |-> 1]
      [] term = "(title LIKE %s OR notes LIKE %s)" -> [col |-> "title", op |-> "LIKE", n |-> 2]

\* text LIKE '%sub%'
Like(text, pattern) ==
    /\ Len(pattern) >= 2
    /\ Contains(text, SubSeq(pattern, 2, Len(pattern) - 1))

\* one term on one record, with the values bound to its placeholders; a
\* DATE column is compared with the date its ISO text denotes
EvalTerm(term, args, rec) ==
    LET t == TermOf(term)
    IN  CASE t.op = ">=" -> DateLE(ParseDate(args[1]).val, rec[t.col])
          [] t.op = "<" -> DateLT(rec[t.col], ParseDate(args[1]).val)
          [] t.op = "<=" -> DateLE(rec[t.col], ParseDate(args[1]).val)
          [] t.op = "=" -> rec[t.col] = args[1]
          [] t.op = "LIKE" -> Like(rec.title, args[1]) \/ Like(rec.notes, args[2])

\* the terms of the clause, each consuming its placeholders from the left
RECURSIVE EvalWhere(_, _, _)
EvalWhere(where, args, rec) ==
    IF where = <<>> THEN TRUE
    ELSE LET n == TermOf(Head(where)).n
         IN  /\ Len(args) >= n
             /\ EvalTerm(Head(where), SubSeq(args, 1, n), rec)
             /\ EvalWhere(Tail(where), SubSeq(args, n + 1, Len(args)), rec)

Matching(where, args) == {rec \in Table : EvalWhere(where, args, rec)}

Alphabet ==
    <<"A", "B", "C", "D", "E", "F", "G", "H", "I", "J", "K", "L", "M",
      "N", "O", "P", "Q", "R", "S", "T", "U", "V", "W", "X", "Y", "Z">>

CharRank(c) == CHOOSE i \in 1..Len(Alphabet) : Alphabet[i] = c

RECURSIVE TextLT(_, _)
TextLT(a, b) ==
    IF b = <<>> THEN FALSE
    ELSE IF a = <<>> THEN TRUE
    ELSE IF Head(a) = Head(b) THEN TextLT(Tail(a), Tail(b))
    ELSE CharRank(Head(a)) < CharRank(Head(b))

\* ORDER BY column direction: a before b is allowed
InOrder(a, b, order) ==
    LET lt(x, y) == CASE order.column = "event_date" -> DateLT(x.event_date, y.event_date)
                      [] order.column = "fatalities" -> x.fatalities < y.fatalities
                      [] order.column = "country" -> TextLT(x.country, y.country)
    IN  IF order.direction = "DESC" THEN ~lt(a, b) ELSE ~lt(b, a)

\* the orderings of a set of records that ORDER BY allows (ties in any order)
Orderings(recs, order) ==
    LET n == Cardinality(recs)
    IN  {s \in [1..n -> recs] :
            /\ \A i, j \in 1..n : i # j => s[i] # s[j]
            /\ \A i, j \in 1..n : i < j => InOrder(s[i], s[j], order)}

Min(a, b) == IF a < b THEN a ELSE b

\* the row a DictCursor returns for a record: the projected columns
Project(rec) == [c \in Columns |-> rec[c]]

\* SELECT COUNT(1) AS total FROM events WHERE ...
CountResult(where, args) == Cardinality(Matching(where, args))

\* SELECT columns FROM events WHERE ... ORDER BY ... LIMIT %s OFFSET %s,
\* args = the filter values, then the limit, then the offset
SelectResults(where, order, args) ==
    LET nf == Len(args) - 2
        limit == args[nf + 1]
        offset == args[nf + 2]
        fargs == SubSeq(args, 1, nf)
    IN  {[i \in 1..(Min(offset + limit, Len(s)) - Min(offset, Len(s))) |->
             Project(s[Min(offset, Len(s)) + i])] :
         s \in Orderings(Matching(where, fargs), order)}

\* ------------------------------------------------------------------------
\* The stubbed cursors of the tests (FakeCursor, DummyCursor): the total
\* and the rows are canned, whatever statement is executed
\* ------------------------------------------------------------------------
BYTES == "<bytes>"

CannedRow(i, lat) ==
    [event_id |-> <<"F", Digits[i + 1]>>, event_date |-> Day(i), country |-> KE,
     admin1 |-> <<"N">>, event_type |-> <<"P">>, sub_event_type |-> <<"S">>,
     actor1 |-> <<"A">>, actor2 |-> <<>>, fatalities |-> 0, latitude |-> lat,
     longitude |-> "36.82"]

\* n canned rows; with poison the first row holds a bytes value
CannedRows(n, poison) ==
    [i \in 1..n |-> CannedRow(i, IF poison /\ i = 1 THEN BYTES ELSE "-1.29")]

\* ------------------------------------------------------------------------
\* JSON: json.dumps(body, cls=EnhancedJSONEncoder)
\* ------------------------------------------------------------------------
\* a date is written as its ISO text; bytes are not serializable
JsonRow(row) == [row EXCEPT !.event_date = IsoFormat(@)]

Serializable(rows) == \A i \in 1..Len(rows) : rows[i].latitude # BYTES

\* ------------------------------------------------------------------------
\* Events: the base event (the query of the smoke test, handler.py:406-411,
\* with a gateway request id) changed in at most MaxEdits places.  A place
\* is a query key, a header name or the request id; its value is the list
\* of its occurrences.
\* ------------------------------------------------------------------------
QueryKeys ==
    <<"country", "start_date", "end_date", "page", "page_size", "sort_by", "sort_dir",
      "q", "event_type", "sub_event_type", "actor1", "actor2", "x-debug-key", "utm">>

\* the places of the headers, in dict order, and the header each one holds
HeaderPlaces == <<"H:X-Debug-Key", "H:x-debug-key", "H:X-Correlation-Id">>

HeaderName(place) ==
    CASE place = "H:X-Debug-Key" -> "X-Debug-Key"
      [] place = "H:x-debug-key" -> "x-debug-key"
      [] place = "H:X-Correlation-Id" -> "X-Correlation-Id"

Places ==
    {QueryKeys[i] : i \in 1..Len(QueryKeys)}
        \cup {HeaderPlaces[i] : i \in 1..Len(HeaderPlaces)} \cup {"requestId"}

BaseOccurrences ==
    [p \in Places |->
        CASE p = "country" -> <<KE>>
          [] p = "start_date" -> <<D1>>
          [] p = "end_date" -> <<D3>>
          [] p = "requestId" -> <<<<"r", "1">>>>
          [] OTHER -> <<>>]

Edits ==
    {<<"country", <<>>>>, <<"country", <<<<"K">>>>>>, <<"country", <<<<" ", "K", "E", " ">>>>>>,
     <<"country", <<<<>>, KE>>>>, <<"country", <<ML, KE>>>>,
     <<"start_date", <<>>>>, <<"start_date", <<BadDate>>>>, <<"start_date", <<D3>>>>,
     <<"end_date", <<>>>>, <<"end_date", <<Feb30>>>>, <<"end_date", <<D1>>>>,
     <<"page", <<<<"0">>>>>>, <<"page", <<<<"2">>>>>>, <<"page", <<<<"x">>>>>>,
     <<"page_size", <<<<"0">>>>>>, <<"page_size", <<<<"1">>>>>>, <<"page_size", <<<<"3">>>>>>,
     <<"page_size", <<<<"4">>>>>>,
     <<"sort_by", <<FATALITIES>>>>, <<"sort_by", <<<<"i", "d">>>>>>,
     <<"sort_dir", <<ASC>>>>, <<"sort_dir", <<<<"D", "E", "S", "C">>>>>>,
     <<"q", <<<<"a">>>>>>, <<"q", <<<<" ">>>>>>, <<"q", <<<<>>>>>>,
     <<"event_type", <<<<"P">>>>>>, <<"event_type", <<<<" ">>>>>>,
     <<"actor1", <<<<"A">>>>>>, <<"actor1", <<<<>>>>>>,
     <<"actor2", <<<<"B">>>>>>,
     <<"x-debug-key", <<T1>>>>,
     <<"utm", <<<<"1">>>>>>,
     <<"H:X-Debug-Key", <<T1>>>>, <<"H:X-Debug-Key", <<<<"t", "1">>>>>>,
     <<"H:x-debug-key", <<<<"z">>>>>>,
     <<"H:X-Correlation-Id", <<<<"c", "1">>>>>>, <<"H:X-Correlation-Id", <<<<>>>>>>,
     <<"requestId", <<>>>>}

\* the sets of at most n edits, no two of the same place
RECURSIVE EditSets(_)
EditSets(n) ==
    IF n = 0 THEN {{}}
    ELSE LET smaller == EditSets(n - 1)
         IN  smaller \cup
             UNION {{es \cup {e} : e \in {e1 \in Edits : \A e2 \in es : e2[1] # e1[1]}} :
                    es \in smaller}

Occurrences(es) ==
    [p \in Places |->
        IF \E e \in es : e[1] = p THEN (CHOOSE e \in es : e[1] = p)[2]
        ELSE BaseOccurrences[p]]

\* the pairs name, value of the places listed in names that occur at least
\* nth times, in the order of names
RECURSIVE PairsOf(_, _, _)
PairsOf(occ, names, nth) ==
    IF names = <<>> THEN <<>>
    ELSE (IF Len(occ[Head(names)]) >= nth
          THEN <<<<Head(names), occ[Head(names)][nth]>>>> ELSE <<>>)
         \o PairsOf(occ, Tail(names), nth)

MakeEvent(shape, occ) ==
    [shape |-> shape,
     rawQueryString |->
        IF shape = "raw"
        THEN PairsOf(occ, QueryKeys, 1) \o PairsOf(occ, QueryKeys, 2) ELSE <<>>,
     queryStringParameters |->
        IF shape = "map"
        THEN [k \in {QueryKeys[i] : i \in {j \in 1..Len(QueryKeys) : occ[QueryKeys[j]] # <<>>}}
                 |-> occ[k][1]]
        ELSE EmptyDict,
     headers |-> LET hs == PairsOf(occ, HeaderPlaces, 1)
                 IN  [i \in 1..Len(hs) |-> <<HeaderName(hs[i][1]), hs[i][2]>>],
     requestContext |->
        IF occ["requestId"] # <<>> THEN ("requestId" :> occ["requestId"][1]) ELSE EmptyDict]

\* a pre-split map holds one value per key
Events ==
    {MakeEvent("raw", Occurrences(es)) : es \in EditSets(MaxEdits)}
        \cup {MakeEvent("map", Occurrences(es)) :
                 es \in {x \in EditSets(MaxEdits) : \A e \in x : Len(e[2]) <= 1}}

\* the texts of the DEBUG_KEYS variable the model is run with
DebugKeysEnv == {<<>>, <<" ", "T", "1", " ", ",", ",", "z">>}

NoEvent == MakeEvent("map", [p \in Places |-> <<>>])

\* ------------------------------------------------------------------------
\* State
\* ------------------------------------------------------------------------
VARIABLES
    DEBUG_ALLOWED_KEYS, \* the allow-list built at import (handler.py:84)
    patched,            \* get_db_connection is replaced by a stub (tests)
    COLD_START,         \* _COLD_START
    connection,         \* _connection: the id of the cached handle, 0 = None
    isOpen,             \* the attribute open of every handle created so far
    pc,                 \* the position of the invocation in _handler
    event,              \* the event of the invocation
    params, corr_id, debug_on, simple, q,
    where_sql, order_sql, sql_params,
    conn,               \* the handle in use: an id, 0 = none, -1 = FakeConn
    total, rows,
    resp,               \* the response returned
    trace,              \* the stages entered by this invocation, in order
    executed,           \* the statements handed to cursor.execute, in order
    errlog              \* the error text logged by the except block

config == <<DEBUG_ALLOWED_KEYS, patched>>
process == <<COLD_START, connection, isOpen>>
request == <<event, params, corr_id, debug_on>>
plan == <<where_sql, order_sql, sql_params>>
vars == <<config, process, request, simple, q, plan, conn, total, rows, resp,
          trace, executed, errlog, pc>>

NoQuery ==
    [country |-> None, start_date |-> NoDate, end_date |-> NoDate, page |-> 0,
     page_size |-> 0, sort_by |-> None, sort_dir |-> None, q |-> None,
     event_type |-> None, sub_event_type |-> None, actor1 |-> None, actor2 |-> None]

NoOrder == [column |-> "", direction |-> ""]

NoResponse == [statusCode |-> 0, headers |-> EmptyDict, body |-> EmptyDict]

NoError == ""

\* the locals of _handler before an invocation
Idle ==
    /\ pc = "idle"
    /\ event = NoEvent /\ params = EmptyDict /\ corr_id = None /\ debug_on = FALSE
    /\ simple = EmptyDict /\ q = NoQuery
    /\ where_sql = <<>> /\ order_sql = NoOrder /\ sql_params = <<>>
    /\ conn = 0 /\ total = 0 /\ rows = <<>>
    /\ resp = NoResponse /\ trace = <<>> /\ executed = <<>> /\ errlog = NoError

\* the module after import: no connection yet, cold start pending
Init ==
    /\ \E env \in DebugKeysEnv : DEBUG_ALLOWED_KEYS = AllowedKeys(env)
    /\ patched \in BOOLEAN
    /\ COLD_START = TRUE
    /\ connection = 0
    /\ isOpen = <<>>
    /\ Idle

\* ------------------------------------------------------------------------
\* _handler, stage by stage
\* ------------------------------------------------------------------------
\* the order of the statements of _handler mutated: page query before count
NextStagePageFirst(stage) ==
    CASE stage = "validate" -> "compile"
      [] stage = "compile" -> "connect"
      [] stage = "connect" -> "page"
      [] stage = "page" -> "count"
      [] stage = "count" -> "assemble"
      [] stage = "assemble" -> "done"

\* the stage that follows a stage that raised nothing
NextStage(stage) ==
    CASE stage = "validate" -> "compile"
      [] stage = "compile" -> "connect"
      [] stage = "connect" -> "count"
      [] stage = "count" -> "page"
      [] stage = "page" -> "assemble"
      [] stage = "assemble" -> "done"

\* an except block that puts the text of the exception in the message
ErrorBodyLeaky(ex, corr) ==
    [error |-> "internal_error", message |-> ex, correlation_id |-> corr]

\* the body of the 500 response (handler.py:388)
ErrorBody(ex, corr) ==
    [error |-> "internal_error", message |-> "An unexpected error occurred",
     correlation_id |-> corr]

\* except Exception as ex: the text of ex goes to the log, the response is
\* generic
Raise(ex) ==
    /\ errlog' = ex
    /\ resp' = response(500, ErrorBody(ex, corr_id), TRUE, corr_id)
    /\ pc' = "done"

\* handler(event, context), up to the validation: the parameters, the
\* correlation id and the debug flag
Invoke ==
    /\ pc = "idle"
    /\ \E ev \in Events :
        /\ event' = ev
        /\ params' = parse_params(ev)
        /\ corr_id' = Or(Get(headers_lower(ev), "x-correlation-id", None),
                         Get(ev.requestContext, "requestId", None))
        /\ debug_on' = is_debug(ev, parse_params(ev), DEBUG_ALLOWED_KEYS)
    /\ COLD_START' = FALSE
    /\ pc' = "validate"
    /\ UNCHANGED <<config, connection, isOpen, simple, q, plan, conn, total, rows,
                   resp, trace, executed, errlog>>

\* Validation: the instance q, or the 400 response with the errors
Validate ==
    /\ pc = "validate"
    /\ trace' = Append(trace, "validate")
    /\ simple' = collapse_to_simple(params)
    /\ LET v == TrendfinderQuery(collapse_to_simple(params))
       IN  IF v.errs # <<>>
           THEN /\ resp' = response(400,
                                    [error |-> "bad_request",
                                     message |-> "Request did not match the API contract",
                                     details |-> v.errs,
                                     correlation_id |-> corr_id],
                                    TRUE, corr_id)
                /\ pc' = "done"
                /\ q' = q
           ELSE /\ q' = v.q
                /\ pc' = NextStage("validate")
                /\ resp' = resp
    /\ UNCHANGED <<config, process, request, plan, conn, total, rows, executed, errlog>>

\* SQL plan
Compile ==
    /\ pc = "compile"
    /\ trace' = Append(trace, "compile")
    /\ where_sql' = build_filters_from_validated(q).where
    /\ sql_params' = build_filters_from_validated(q).params
    /\ order_sql' = build_sort_from_validated(q)
    /\ pc' = NextStage("compile")
    /\ UNCHANGED <<config, process, request, simple, q, conn, total, rows, resp,
                   executed, errlog>>

\* a get_db_connection that never finds its cached handle usable
CachedHandleIgnored == FALSE

\* if _connection and getattr(_connection, "open", False)  (handler.py:203)
CachedHandleUsable == connection # 0 /\ isOpen[connection]

\* conn = get_db_connection()
Connect ==
    /\ pc = "connect"
    /\ trace' = Append(trace, "connect")
    /\ \/ \* the stub of the tests: a new FakeConn, never an error
          /\ patched
          /\ conn' = -1
          /\ pc' = NextStage("connect")
          /\ UNCHANGED <<connection, isOpen, resp, errlog>>
       \/ \* the cached handle is open: it is returned
          /\ ~patched
          /\ CachedHandleUsable
          /\ conn' = connection
          /\ pc' = NextStage("connect")
          /\ UNCHANGED <<connection, isOpen, resp, errlog>>
       \/ \* no open handle: pymysql.connect returns a new one, which is cached
          /\ ~patched
          /\ ~CachedHandleUsable
          /\ Len(isOpen) < MaxConnects
          /\ isOpen' = Append(isOpen, TRUE)
          /\ connection' = Len(isOpen) + 1
          /\ conn' = Len(isOpen) + 1
          /\ pc' = NextStage("connect")
          /\ UNCHANGED <<resp, errlog>>
       \/ \* no open handle: pymysql.connect raises
          /\ ~patched
          /\ ~CachedHandleUsable
          /\ Raise("OperationalError: cannot connect")
          /\ UNCHANGED <<connection, isOpen, conn>>
    /\ UNCHANGED <<config, COLD_START, request, simple, q, plan, total, rows, executed>>

\* cur.execute(count_sql, sql_params); total = cur.fetchone()["total"]
ExecuteCount ==
    /\ pc = "count"
    /\ trace' = Append(trace, "count")
    /\ executed' = Append(executed, [sql |-> "count", args |-> sql_params])
    /\ \/ /\ patched
          /\ \E n \in 0..MaxTotal : total' = n
          /\ pc' = NextStage("count")
          /\ UNCHANGED <<isOpen, resp, errlog>>
       \/ /\ ~patched
          /\ total' = CountResult(where_sql, sql_params)
          /\ pc' = NextStage("count")
          /\ UNCHANGED <<isOpen, resp, errlog>>
       \/ \* the statement fails, the connection stays open
          /\ ~patched
          /\ Raise("ProgrammingError: count")
          /\ UNCHANGED <<isOpen, total>>
       \/ \* the connection is lost: pymysql closes the handle and raises
          /\ ~patched
          /\ isOpen' = [isOpen EXCEPT ![conn] = FALSE]
          /\ Raise("OperationalError: server has gone away")
          /\ UNCHANGED total
    /\ UNCHANGED <<config, COLD_START, connection, request, simple, q, plan, conn, rows>>

\* the two trailing values of the page statement in the other order
PageArgsOffsetFirst(ps, page, page_size) == ps \o <<(page - 1) * page_size, page_size>>

\* offset = (page - 1) * page_size; sql_params + [page_size, offset]
PageArgs(ps, page, page_size) == ps \o <<page_size, (page - 1) * page_size>>

\* cur.execute(select_sql, sql_params + [page_size, offset]); rows = cur.fetchall()
ExecutePage ==
    /\ pc = "page"
    /\ trace' = Append(trace, "page")
    /\ LET args == PageArgs(sql_params, q.page, q.page_size)
       IN  /\ executed' = Append(executed, [sql |-> "select", args |-> args])
           /\ \/ /\ patched
                 /\ \E n \in 0..MaxRows, poison \in BOOLEAN : rows' = CannedRows(n, poison)
                 /\ pc' = NextStage("page")
                 /\ UNCHANGED <<isOpen, resp, errlog>>
              \/ /\ ~patched
                 /\ rows' \in SelectResults(where_sql, order_sql, args)
                 /\ pc' = NextStage("page")
                 /\ UNCHANGED <<isOpen, resp, errlog>>
              \/ /\ ~patched
                 /\ Raise("ProgrammingError: select")
                 /\ UNCHANGED <<isOpen, rows>>
              \/ /\ ~patched
                 /\ isOpen' = [isOpen EXCEPT ![conn] = FALSE]
                 /\ Raise("OperationalError: server has gone away")
                 /\ UNCHANGED rows
    /\ UNCHANGED <<config, COLD_START, connection, request, simple, q, plan, conn, total>>

\* rows[:DEBUG_MAX_ROWS] omitted in debug mode
DebugCapNone(rs, debug) == rs

\* if debug_on: rows = rows[:DEBUG_MAX_ROWS]
DebugCap(rs, debug) == IF debug THEN Prefix(rs, DEBUG_MAX_ROWS) ELSE rs

\* total // page_size
TotalPagesFloor(n, page_size) == n \div page_size

\* (total + page_size - 1) // page_size
TotalPages(n, page_size) == (n + page_size - 1) \div page_size

NullDebug == [null |-> TRUE]

\* the response envelope (handler.py:346-371)
Body(rs) ==
    [meta |->
        [page |-> q.page,
         page_size |-> q.page_size,
         total |-> total,
         total_pages |-> TotalPages(total, q.page_size),
         sort |-> [by |-> q.sort_by, dir |-> q.sort_dir],
         filters |-> simple,
         correlation_id |-> corr_id,
         debug |-> IF debug_on
                   THEN [where_sql |-> where_sql,
                         order_sql |-> order_sql,
                         params_preview |-> ParamsPreview(sql_params),
                         limits |-> [page_size |-> q.page_size, hard_cap |-> MAX_PAGE_SIZE],
                         validation |-> "ok"]
                   ELSE NullDebug],
     data |-> [i \in 1..Len(rs) |-> JsonRow(rs[i])]]

\* the debug cap, the envelope and its serialization; rows keeps what
\* fetchall returned, the capped list is the data of the envelope
Assemble ==
    /\ pc = "assemble"
    /\ trace' = Append(trace, "assemble")
    /\ IF Serializable(DebugCap(rows, debug_on))
       THEN /\ resp' = response(200, Body(DebugCap(rows, debug_on)), TRUE, corr_id)
            /\ pc' = NextStage("assemble")
            /\ errlog' = errlog
       ELSE Raise("TypeError: Object of type bytes is not JSON serializable")
    /\ UNCHANGED <<config, process, request, simple, q, plan, conn, total, rows, executed>>

\* the response is handed to the runtime; the locals are gone
Return ==
    /\ pc = "done"
    /\ pc' = "idle"
    /\ event' = NoEvent /\ params' = EmptyDict /\ corr_id' = None /\ debug_on' = FALSE
    /\ simple' = EmptyDict /\ q' = NoQuery
    /\ where_sql' = <<>> /\ order_sql' = NoOrder /\ sql_params' = <<>>
    /\ conn' = 0 /\ total' = 0 /\ rows' = <<>>
    /\ resp' = NoResponse /\ trace' = <<>> /\ executed' = <<>> /\ errlog' = NoError
    /\ UNCHANGED <<config, process>>

Next ==
    \/ Invoke
    \/ Validate
    \/ Compile
    \/ Connect
    \/ ExecuteCount
    \/ ExecutePage
    \/ Assemble
    \/ Return

Spec == Init /\ [][Next]_vars

\* ------------------------------------------------------------------------
\* Properties
\* ------------------------------------------------------------------------
Returned == pc = "done"

Status == resp.statusCode

\* The query contract, field by field: the fields of a normalized mapping
\* that are absent though required, or present and outside their constraint
ContractViolations(m) ==
    {f \in {"country"} : ~Has(m, f) \/ Len(Strip(m[f])) < 2}
    \cup {f \in {"start_date", "end_date"} : ~Has(m, f) \/ ~ParseDate(m[f]).ok}
    \cup {f \in {"page"} : Has(m, f) /\ (~ParseInt(m[f]).ok \/ ParseInt(m[f]).val < 1)}
    \cup {f \in {"page_size"} :
            Has(m, f) /\ (\/ ~ParseInt(m[f]).ok
                          \/ ParseInt(m[f]).val < 1
                          \/ ParseInt(m[f]).val > MAX_PAGE_SIZE)}
    \cup {f \in {"sort_by"} : Has(m, f) /\ m[f] \notin {EVENT_DATE, FATALITIES, COUNTRY}}
    \cup {f \in {"sort_dir"} : Has(m, f) /\ m[f] \notin {ASC, DESC}}
    \cup {f \in {"q"} : Has(m, f) /\ (Len(Strip(m[f])) < 1 \/ Len(Strip(m[f])) > Q_MAX_LENGTH)}
    \cup {f \in {"event_type", "sub_event_type", "actor1", "actor2"} :
            Has(m, f) /\ Len(Strip(m[f])) < 1}

\* the fields the details of a 400 response name
NamedInDetails == {resp.body.details[i].loc : i \in 1..Len(resp.body.details)}

\* C1: a request with at least one contract violation is answered 400
\* "bad_request", and the details of that one response name every violating
\* field of the request.
C1_AllViolationsReported ==
    (Returned /\ ContractViolations(simple) # {})
        => /\ Status = 400
           /\ resp.body.error = "bad_request"
           /\ ContractViolations(simple) \subseteq NamedInDetails

\* a 400 response to a request with two violating fields, both named
C1_Witness ==
    /\ Returned /\ Status = 400
    /\ Cardinality(ContractViolations(simple)) >= 2
    /\ ContractViolations(simple) \subseteq NamedInDetails

\* the number a client supplied for a field of the mapping
Supplied(m, f) == ParseInt(m[f]).val

PagingOutOfRange(m) ==
    \/ Has(m, "page_size") /\ ParseInt(m["page_size"]).ok
          /\ (Supplied(m, "page_size") > MAX_PAGE_SIZE \/ Supplied(m, "page_size") < 1)
    \/ Has(m, "page") /\ ParseInt(m["page"]).ok /\ Supplied(m, "page") < 1

\* C2: a page_size above MAX_PAGE_SIZE or below 1, or a page below 1, is
\* answered 400; no 200 response carries a meta.page_size or meta.page other
\* than the value the client supplied.
C2_NeverClamped ==
    Returned =>
        /\ PagingOutOfRange(simple) => Status = 400
        /\ Status = 200 =>
            /\ Has(simple, "page_size")
                  => resp.body.meta.page_size = Supplied(simple, "page_size")
            /\ Has(simple, "page") => resp.body.meta.page = Supplied(simple, "page")

\* a request with page_size above the maximum, answered 400 with page_size named
C2_Witness ==
    /\ Returned /\ Status = 400
    /\ Has(simple, "page_size") /\ ParseInt(simple["page_size"]).ok
    /\ Supplied(simple, "page_size") > MAX_PAGE_SIZE
    /\ "page_size" \in NamedInDetails

\* ceil(n / d) for n >= 0, d >= 1: 0 when n = 0, else the least k with k * d >= n
Ceil(n, d) ==
    IF n = 0 THEN 0
    ELSE CHOOSE k \in 1..n : k * d >= n /\ \A j \in 0..(k - 1) : j * d < n

\* C3: in every 200 response meta.total is the count the store reported and
\* meta.total_pages is ceil(total / page_size) for the validated page size.
C3_TotalPagesIsCeiling ==
    (Returned /\ Status = 200)
        => /\ resp.body.meta.total = total
           /\ resp.body.meta.page_size = q.page_size
           /\ resp.body.meta.total_pages = Ceil(total, q.page_size)

\* a 200 response whose total is no multiple of the page size and exceeds it
C3_Witness ==
    /\ Returned /\ Status = 200
    /\ total > q.page_size /\ total % q.page_size # 0
    /\ resp.body.meta.total_pages * q.page_size > total

Data == resp.body.data

Meta == resp.body.meta

\* C4 as stated: in every 200 response len(data) <= page_size whatever rows
\* the page query returned, and len(data) <= DEBUG_MAX_ROWS in debug mode.
C4_Original ==
    (Returned /\ Status = 200)
        => /\ Len(Data) <= Meta.page_size
           /\ debug_on => Len(Data) <= DEBUG_MAX_ROWS

\* C4 (amended): in every 200 response data holds no more rows than the page
\* query returned, so len(data) <= page_size whenever the executor returned
\* at most page_size rows, as the store does for LIMIT page_size; in debug
\* mode len(data) is also at most DEBUG_MAX_ROWS.
C4_RowsBounded ==
    (Returned /\ Status = 200)
        => /\ Len(Data) <= Len(rows)
           /\ Len(rows) <= Meta.page_size => Len(Data) <= Meta.page_size
           /\ ~patched => Len(Data) <= Meta.page_size
           /\ debug_on => Len(Data) <= DEBUG_MAX_ROWS

\* a debug response of the store whose page was cut down to the debug cap
C4_Witness ==
    /\ Returned /\ Status = 200 /\ debug_on /\ ~patched
    /\ Len(rows) > DEBUG_MAX_ROWS
    /\ Len(Data) = DEBUG_MAX_ROWS

\* the debug key an event supplies: the X-Debug-Key header (its name in any
\* case), else the query parameter x-debug-key; None when there is none
SuppliedDebugKey(ev) ==
    LET hs == {i \in 1..Len(ev.headers) : LowerName(ev.headers[i][1]) = "x-debug-key"}
        hv == IF hs = {} THEN None
              ELSE ev.headers[CHOOSE i \in hs : \A j \in hs : j <= i][2]
        m == collapse_to_simple(parse_params(ev))
    IN  IF hv # None /\ hv # <<>> THEN hv
        ELSE IF Has(m, "x-debug-key") THEN m["x-debug-key"] ELSE None

\* C5: debug mode is on exactly when the supplied debug key equals, case
\* for case, an entry of the allow-list; a 200 response has a non-null
\* meta.debug (with where_sql, order_sql, params_preview) exactly in debug
\* mode; with an empty allow-list debug mode is never on.
C5_DebugOnlyWithAllowedKey ==
    (pc # "idle")
        => /\ debug_on <=> (\E k \in DEBUG_ALLOWED_KEYS : k = SuppliedDebugKey(event))
           /\ DEBUG_ALLOWED_KEYS = {} => ~debug_on
           /\ (Returned /\ Status = 200) =>
                /\ (Meta.debug # NullDebug) <=> debug_on
                /\ debug_on =>
                     {"where_sql", "order_sql", "params_preview"} \subseteq DOMAIN Meta.debug

\* a 200 response in debug mode, and with the block
C5_Witness ==
    /\ Returned /\ Status = 200
    /\ SuppliedDebugKey(event) \in DEBUG_ALLOWED_KEYS
    /\ Meta.debug # NullDebug
    /\ Meta.debug.where_sql = where_sql

\* the validated query admits a record of the table
Admits(vq, rec) ==
    /\ DateLE(vq.start_date, rec.event_date)
    /\ DateLT(rec.event_date, vq.end_date)
    /\ rec.country = vq.country
    /\ \A f \in {"event_type", "sub_event_type", "actor1", "actor2"} :
          vq[f] # None => rec[f] = vq[f]
    /\ vq.q # None => (Contains(rec.title, vq.q) \/ Contains(rec.notes, vq.q))

\* C6: against the store, the count is the number of records with
\* start_date <= event_date < end_date that match the other filters, every
\* row of the page is such a record, no row is dated end_date, and a query
\* with start_date >= end_date is answered 200 with nothing.
C6_EndDateExclusive ==
    (Returned /\ Status = 200 /\ ~patched)
        => /\ total = Cardinality({rec \in Table : Admits(q, rec)})
           /\ \A i \in 1..Len(Data) :
                /\ \E rec \in Table : rec.event_id = Data[i].event_id /\ Admits(q, rec)
                /\ Data[i].event_date # IsoFormat(q.end_date)
           /\ DateLE(q.end_date, q.start_date) => (total = 0 /\ Data = <<>>)

\* a 200 response of the store that leaves out a record dated end_date that
\* matches every other filter
C6_Witness ==
    /\ Returned /\ Status = 200 /\ ~patched
    /\ total >= 1 /\ Data # <<>>
    /\ \E rec \in Table :
          /\ rec.event_date = q.end_date
          /\ Admits([q EXCEPT !.end_date = Day(31)], rec)

\* the positions of key k in a raw query string
Positions(raw, k) == {i \in 1..Len(raw) : raw[i][1] = k}

Repeated(raw) == {raw[i][1] : i \in {j \in 1..Len(raw) : Cardinality(Positions(raw, raw[j][1])) > 1}}

FirstOccurrence(raw, k) ==
    raw[CHOOSE i \in Positions(raw, k) : \A j \in Positions(raw, k) : i <= j][2]

\* the value of the first occurrence of k that has a non-empty value, or None
FirstNonEmpty(raw, k) ==
    LET ps == {i \in Positions(raw, k) : raw[i][2] # <<>>}
    IN  IF ps = {} THEN None ELSE raw[CHOOSE i \in ps : \A j \in ps : i <= j][2]

\* v is the value of key k wherever the invocation has used the key so far:
\* the normalized mapping, the validated field, the bound parameter (country
\* is the third), and meta.filters
Honoured(k, v) ==
    /\ Has(collapse_to_simple(params), k) /\ collapse_to_simple(params)[k] = v
    /\ trace # <<>> => (Has(simple, k) /\ simple[k] = v)
    /\ (Len(trace) >= 2 /\ k = "country") => (q.country = Strip(v) /\ sql_params[3] = Strip(v))
    /\ (Returned /\ Status = 200) => (Has(Meta.filters, k) /\ Meta.filters[k] = v)

\* C7 as stated: of a key that occurs more than once in the raw query
\* string, the value of the first occurrence is the one used.
C7_Original ==
    (pc # "idle" /\ is_http_api_v2(event))
        => \A k \in Repeated(event.rawQueryString) :
              Honoured(k, FirstOccurrence(event.rawQueryString, k))

\* C7 (amended): of a key that occurs more than once in the raw query
\* string, the value used is that of the first occurrence with a non-empty
\* value; occurrences with an empty value are dropped by the parser, and a
\* key with no other occurrence is absent.  Later occurrences are not merged.
C7_FirstNonEmptyWins ==
    (pc # "idle" /\ is_http_api_v2(event))
        => \A k \in Repeated(event.rawQueryString) :
              IF FirstNonEmpty(event.rawQueryString, k) = None
              THEN ~Has(collapse_to_simple(params), k)
              ELSE Honoured(k, FirstNonEmpty(event.rawQueryString, k))

\* a 200 response to a query string that gives country twice, with
\* different values
C7_Witness ==
    /\ Returned /\ Status = 200 /\ is_http_api_v2(event)
    /\ "country" \in Repeated(event.rawQueryString)
    /\ \E i, j \in Positions(event.rawQueryString, "country") :
          /\ i < j
          /\ event.rawQueryString[i][2] # <<>>
          /\ event.rawQueryString[j][2] # event.rawQueryString[i][2]
    /\ Meta.filters["country"] = FirstOccurrence(event.rawQueryString, "country")

Last(s) == s[Len(s)]

\* a stage entered after the validation did not complete: the invocation
\* is over and the last stage entered is not the assembly of a serializable
\* envelope
FailedAfterValidation ==
    /\ Returned
    /\ Len(trace) >= 2
    /\ \/ Last(trace) # "assemble"
       \/ ~Serializable(DebugCap(rows, debug_on))

\* C8: a failure after the validation is answered 500 with exactly error
\* "internal_error", the fixed message and correlation_id; the text of the
\* failure is logged and is nowhere in the body; a 500 is given for nothing
\* else.
C8_GenericInternalError ==
    /\ FailedAfterValidation
          => /\ Status = 500
             /\ DOMAIN resp.body = {"error", "message", "correlation_id"}
             /\ resp.body.error = "internal_error"
             /\ resp.body.message = "An unexpected error occurred"
             /\ resp.body.correlation_id = corr_id
             /\ errlog # NoError
             /\ resp.body.message # errlog
    /\ (Returned /\ Status = 500) => FailedAfterValidation

\* a 500 response to a failed serialization of the envelope
C8_Witness ==
    /\ Returned /\ Status = 500
    /\ Last(trace) = "assemble"
    /\ ~Serializable(rows)
    /\ resp.body.message = "An unexpected error occurred"

\* the correlation id an event makes known: the X-Correlation-Id header
\* (its name in any case), else the request id of the gateway
KnownCorrelationId(ev) ==
    LET hs == {i \in 1..Len(ev.headers) : LowerName(ev.headers[i][1]) = "x-correlation-id"}
        hv == IF hs = {} THEN None
              ELSE ev.headers[CHOOSE i \in hs : \A j \in hs : j <= i][2]
    IN  IF hv # None /\ hv # <<>> THEN hv
        ELSE IF Has(ev.requestContext, "requestId") /\ ev.requestContext["requestId"] # <<>>
        THEN ev.requestContext["requestId"]
        ELSE None

BodyCorrelationId == IF Status = 200 THEN Meta.correlation_id ELSE resp.body.correlation_id

\* C9: every response, of any status, has Content-Type application/json and
\* the CORS headers; a known correlation id is echoed in the
\* X-Correlation-Id header and in the body.
C9_HeadersAndCorrelation ==
    Returned =>
        /\ Status \in {200, 400, 500}
        /\ resp.headers["Content-Type"] = "application/json"
        /\ Has(resp.headers, "Access-Control-Allow-Origin")
        /\ resp.headers["Access-Control-Allow-Origin"] = "*"
        /\ resp.headers["Access-Control-Allow-Methods"] = "GET,OPTIONS"
        /\ resp.headers["Access-Control-Allow-Headers"]
              = "Content-Type,Authorization,X-Debug-Key,X-Correlation-Id"
        /\ KnownCorrelationId(event) # None =>
              /\ Has(resp.headers, "X-Correlation-Id")
              /\ resp.headers["X-Correlation-Id"] = KnownCorrelationId(event)
              /\ BodyCorrelationId = KnownCorrelationId(event)

\* a 500 response that echoes the id of the X-Correlation-Id header
C9_Witness ==
    /\ Returned /\ Status = 500
    /\ \E i \in 1..Len(event.headers) :
          /\ event.headers[i][1] = "X-Correlation-Id"
          /\ event.headers[i][2] # <<>>
          /\ resp.headers["X-Correlation-Id"] = event.headers[i][2]
          /\ resp.body.correlation_id = event.headers[i][2]

Stages == <<"validate", "compile", "connect", "count", "page", "assemble">>

IsPrefix(s, t) == Len(s) <= Len(t) /\ s = SubSeq(t, 1, Len(s))

\* the statements executed, by kind
ExecutedKinds == [i \in 1..Len(executed) |-> executed[i].sql]

\* C10: the stages of an invocation are entered in the order validate,
\* compile, connect, count, page, assemble, each at most once and none
\* skipped; the count statement is executed before the page statement and
\* each once at most; after a failure no later stage is entered; a failed
\* validation acquires no connection and executes no statement.
C10_StagesInOrder ==
    /\ IsPrefix(trace, Stages)
    /\ IsPrefix(ExecutedKinds, <<"count", "select">>)
    /\ Len(executed) = Cardinality({i \in 1..Len(trace) : trace[i] \in {"count", "page"}})
    /\ pc \notin {"idle", "done"} => (Len(trace) < 6 /\ Stages[Len(trace) + 1] = pc)
    /\ conn # 0 => Len(trace) >= 3
    /\ (Returned /\ Status = 200) => trace = Stages
    /\ (Returned /\ Status = 400) => (trace = <<"validate">> /\ conn = 0 /\ executed = <<>>)
    /\ (Returned /\ Status = 500) => Len(trace) >= 3

\* a failed count statement: the page statement was never executed
C10_Witness ==
    /\ Returned /\ Status = 500
    /\ trace = <<"validate", "compile", "connect", "count">>
    /\ ExecutedKinds = <<"count">>

\* the handles created so far that are open
LiveHandles == {i \in 1..Len(isOpen) : isOpen[i]}

\* C11: the process holds at most one cached connection handle.
\* get_db_connection returns the cached handle without connecting again
\* whenever that handle exists and is open; it establishes a new connection,
\* which replaces the cached handle, only when the handle is absent or not
\* open; a connect attempt that fails leaves the cached handle unchanged; no
\* other step of an invocation changes the cached handle or creates one, so
\* no handle other than the cached one is ever open.
C11_SingleCachedHandle ==
    [][ /\ (pc = "connect" /\ ~patched) =>
              IF connection # 0 /\ isOpen[connection]
              THEN /\ conn' = connection
                   /\ connection' = connection
                   /\ isOpen' = isOpen
              ELSE \/ /\ isOpen' = Append(isOpen, TRUE)
                      /\ connection' = Len(isOpen) + 1
                      /\ conn' = Len(isOpen) + 1
                   \/ /\ pc' = "done" /\ resp'.statusCode = 500
                      /\ connection' = connection
                      /\ isOpen' = isOpen
        /\ (pc # "connect" \/ patched) =>
              /\ connection' = connection
              /\ Len(isOpen') = Len(isOpen)
        /\ LiveHandles' \subseteq {connection'}
      ]_vars

\* a second handle is cached and in use after the first one was lost
C11_Witness ==
    /\ ~patched
    /\ pc = "count"
    /\ Len(isOpen) = 2 /\ ~isOpen[1] /\ isOpen[2]
    /\ connection = 2 /\ conn = 2

OptionalFields == {"q", "event_type", "sub_event_type", "actor1", "actor2"}

\* the values an event supplies for a query key, in either transport shape
SuppliedValues(ev, f) ==
    IF is_http_api_v2(ev)
    THEN {ev.rawQueryString[i][2] : i \in Positions(ev.rawQueryString, f)}
    ELSE IF Has(ev.queryStringParameters, f) THEN {ev.queryStringParameters[f]} ELSE {}

\* the event supplies f, and every value it supplies is empty after trimming
BlankSupplied(ev, f) ==
    /\ SuppliedValues(ev, f) # {}
    /\ \A v \in SuppliedValues(ev, f) : Strip(v) = <<>>

\* the term of the filter clause that a field contributes
FilterTerm(f) == IF f = "q" THEN "(title LIKE %s OR notes LIKE %s)" ELSE f \o " = %s"

\* the number of placeholders of a filter clause
RECURSIVE Placeholders(_)
Placeholders(where) ==
    IF where = <<>> THEN 0
    ELSE (IF Head(where) = FilterTerm("q") THEN 2 ELSE 1) + Placeholders(Tail(where))

\* C12 as stated: an optional string field (q, event_type, sub_event_type,
\* actor1, actor2) supplied with a value that is empty after trimming, in
\* the raw query string or in the pre-split map, is treated as absent: no
\* 400 response names the field, the validated field is None, and the field
\* contributes no filter term and no bound parameter; a country that is
\* present with fewer than 2 characters after trimming is answered 400.
C12_Original ==
    /\ \A f \in OptionalFields :
          (pc # "idle" /\ BlankSupplied(event, f)) =>
              /\ (Returned /\ Status = 400) => f \notin NamedInDetails
              /\ Len(trace) >= 2 =>
                    /\ q[f] = None
                    /\ \A i \in 1..Len(where_sql) : where_sql[i] # FilterTerm(f)
                    /\ Len(sql_params) = Placeholders(where_sql)
    /\ (Returned /\ Has(simple, "country") /\ Len(Strip(simple["country"])) < 2)
          => (Status = 400 /\ "country" \in NamedInDetails)

\* the values one term of the clause consumes, for a validated query
TermValues(vq, f) ==
    IF f = "q" THEN <<<<"%">> \o vq.q \o <<"%">>, <<"%">> \o vq.q \o <<"%">>>>
    ELSE <<vq[f]>>

\* the terms of the clause, each with the values bound to its placeholders,
\* for the fields of fs that the validated query has, in the order of fs
RECURSIVE Bindings(_, _)
Bindings(vq, fs) ==
    IF fs = <<>> THEN <<>>
    ELSE (IF vq[Head(fs)] # None
          THEN <<[term |-> FilterTerm(Head(fs)), vals |-> TermValues(vq, Head(fs))]>>
          ELSE <<>>)
         \o Bindings(vq, Tail(fs))

ExpectedBindings(vq) ==
    <<[term |-> "event_date >= %s", vals |-> <<IsoFormat(vq.start_date)>>],
      [term |-> "event_date < %s", vals |-> <<IsoFormat(vq.end_date)>>]>>
    \o Bindings(vq, <<"country", "event_type", "sub_event_type", "actor1", "actor2", "q">>)

RECURSIVE Flatten(_)
Flatten(bs) == IF bs = <<>> THEN <<>> ELSE Head(bs).vals \o Flatten(Tail(bs))

\* C13: for every validated query the bound parameter list matches the
\* filter clause position by position: the clause has as many placeholders
\* as there are bound values, in the order start_date, end_date, each
\* present field of country, event_type, sub_event_type, actor1, actor2
\* (one value each), then the wildcarded q value twice; the count statement
\* is executed with exactly this list and the page statement with this list
\* followed by limit = page_size and offset = (page - 1) * page_size.
C13_ParamsMatchClause ==
    Len(trace) >= 2 =>
        /\ where_sql = [i \in 1..Len(ExpectedBindings(q)) |-> ExpectedBindings(q)[i].term]
        /\ sql_params = Flatten(ExpectedBindings(q))
        /\ Len(sql_params) = Placeholders(where_sql)
        /\ Len(executed) >= 1 =>
              executed[1] = [sql |-> "count", args |-> Flatten(ExpectedBindings(q))]
        /\ Len(executed) >= 2 =>
              executed[2] = [sql |-> "select",
                             args |-> Flatten(ExpectedBindings(q))
                                        \o <<q.page_size, (q.page - 1) * q.page_size>>]

\* a 200 response to the second page of a query with q and an equality
\* filter: both statements executed, the offset is not zero
C13_Witness ==
    /\ Returned /\ Status = 200
    /\ q.q # None /\ q.page = 2
    /\ Len(executed) = 2
    /\ Len(executed[1].args) = 5
    /\ Len(executed[2].args) = 7
    /\ executed[2].args[7] = q.page_size

====
